---------------------------- MODULE Spec2Model ----------------------------
(***************************************************************************)
(* The /chat and /gifts routes of santa-backend-starter.                   *)
(*                                                                         *)
(* The repository holds four versions of the server; each is one "build":  *)
(*   starter      src/src/index.ts            (Santa, no fallback path)    *)
(*   santa        src/index.ts, lines 1-195   (Santa, with fallback)       *)
(*   pepper       src/index.ts, lines 197-403 (Pepper, generic override)   *)
(*   pepperNames  src/unnamed/part_000        (Pepper, learns names)       *)
(*                                                                         *)
(* Text is modelled as a sequence of tokens.  A token is an indivisible    *)
(* run of characters: a brace, a colon, a comma, a blank, a line break, a  *)
(* JSON string literal (quotes included), a number, or a word.  The        *)
(* regular expressions, JSON.parse, String.replace and String.trim of the  *)
(* source are computed on these sequences.                                 *)
(***************************************************************************)
EXTENDS Integers, Sequences, FiniteSets, TLC

(***************************************************************************)
(* Bounds of the model.                                                    *)
(***************************************************************************)
\* /chat requests accepted in one behaviour.
MaxTurns == 2
\* /chat requests whose model call may be in flight at the same time.
MaxInFlight == 2

(***************************************************************************)
(* Tokens.                                                                 *)
(***************************************************************************)
LB == "{"
RB == "}"
COLON == ":"
COMMA == ","
SP == " "
NL == "\n"
QUOTE == "\""
Whitespace == {SP, NL}

\* The contents of the JSON string literals that occur in the model.
StrContents ==
  {"gift", "item", "details", "child", "name", "color", "red",
   "bike", "Emma", "Zoe", "", " "}
Q(v) == "\"" \o v \o "\""
StrLits == {Q(v) : v \in StrContents}
IsStrLit(tok) == tok \in StrLits
StrVal(tok) == CHOOSE v \in StrContents : Q(v) = tok
\* The characters of a decoded string literal, as text.
Chars(v) == IF v = "" THEN <<>> ELSE <<v>>
Numbers == {"0", "5"}
Keywords == {"true", "false", "null"}

Min(S) == CHOOSE x \in S : \A y \in S : x <= y
Max(S) == CHOOSE x \in S : \A y \in S : x >= y
\* s[i], or the empty token past the end of s.
At(s, i) == IF i >= 1 /\ i <= Len(s) THEN s[i] ELSE ""

(***************************************************************************)
(* String.prototype.trim, String.prototype.indexOf and                     *)
(* String.prototype.replace(pattern, "") on token sequences.               *)
(***************************************************************************)
Trim(s) ==
  LET keep == {i \in 1..Len(s) : s[i] \notin Whitespace}
  IN  IF keep = {} THEN <<>> ELSE SubSeq(s, Min(keep), Max(keep))

\* A match is the span it covers; from = 0 is "no match" (null).
NoMatch == [from |-> 0, to |-> 0]
Matched(m) == m.from # 0
MatchText(s, m) == SubSeq(s, m.from, m.to)

\* The first occurrence of the non-empty text m in s, as a span.
IndexOf(s, m) ==
  LET hits == {i \in 1..(Len(s) - Len(m) + 1) : SubSeq(s, i, i + Len(m) - 1) = m}
  IN  IF hits = {} THEN NoMatch
      ELSE [from |-> Min(hits), to |-> Min(hits) + Len(m) - 1]

\* s with the span m removed (s itself when m is no match).
RemoveSpan(s, m) ==
  IF Matched(m) THEN SubSeq(s, 1, m.from - 1) \o SubSeq(s, m.to + 1, Len(s))
  ELSE s

(***************************************************************************)
(* The regular expressions of the source.                                  *)
(***************************************************************************)
\* /\{[\s\S]*"gift"[\s\S]*\}/ : the leftmost "{" that has a "gift" literal
\* and then a "}" after it; both stars are greedy, so the match runs to the
\* last "}" of the text.
GiftRegexGreedy(s) ==
  LET starts == {i \in 1..Len(s) :
                   /\ s[i] = LB
                   /\ \E j \in (i+1)..Len(s) :
                        /\ s[j] = Q("gift")
                        /\ \E k \in (j+1)..Len(s) : s[k] = RB}
  IN  IF starts = {} THEN NoMatch
      ELSE [from |-> Min(starts),
            to   |-> Max({k \in 1..Len(s) : s[k] = RB})]

\* /\{"gift"[\s\S]*\}/ : the leftmost "{" directly followed by the "gift"
\* literal with a "}" after it, through the last "}" of the text.
GiftRegexAnchored(s) ==
  LET starts == {i \in 1..Len(s) :
                   /\ s[i] = LB
                   /\ At(s, i+1) = Q("gift")
                   /\ \E k \in (i+2)..Len(s) : s[k] = RB}
  IN  IF starts = {} THEN NoMatch
      ELSE [from |-> Min(starts),
            to   |-> Max({k \in 1..Len(s) : s[k] = RB})]

\* \s* from position i: the first position at or after i that holds no
\* whitespace (Len(s)+1 at the end of the text).
SkipWs(s, i) ==
  Min({j \in i..(Len(s)+1) : At(s, j) \notin Whitespace})

\* /\{"child"\s*:\s*\{"name"\s*:\s*"([^"]+)"\}\}/ tried at position i:
\* the position of the name literal (group 1), or 0.
NameRegexAt(s, i) ==
  LET a == SkipWs(s, i+2)
      b == SkipWs(s, a+1)
      c == SkipWs(s, b+2)
      d == SkipWs(s, c+1)
  IN  IF /\ At(s, i) = LB
         /\ At(s, i+1) = Q("child")
         /\ At(s, a) = COLON
         /\ At(s, b) = LB
         /\ At(s, b+1) = Q("name")
         /\ At(s, c) = COLON
         /\ IsStrLit(At(s, d))
         /\ StrVal(At(s, d)) # ""
         /\ At(s, d+1) = RB
         /\ At(s, d+2) = RB
      THEN d
      ELSE 0

\* reply.match(nameRegex): the leftmost match, with group 1.
NameRegex(s) ==
  LET starts == {i \in 1..Len(s) : NameRegexAt(s, i) # 0}
  IN  IF starts = {} THEN [from |-> 0, to |-> 0, name |-> <<>>]
      ELSE LET i == Min(starts)
               d == NameRegexAt(s, i)
           IN  [from |-> i, to |-> d + 2, name |-> Chars(StrVal(s[d]))]

\* /i (?:want|would like|wish for) (.+)/i tried at position i: the position
\* where group 1 starts, or 0.  "." matches no line break.
WishRegexAt(t, i) ==
  LET v == IF At(t, i+2) \in {"want", "Want"} THEN i+2
           ELSE IF /\ At(t, i+2) \in {"would", "Would"}
                   /\ At(t, i+3) = SP
                   /\ At(t, i+4) \in {"like", "Like"} THEN i+4
           ELSE IF /\ At(t, i+2) \in {"wish", "Wish"}
                   /\ At(t, i+3) = SP
                   /\ At(t, i+4) \in {"for", "For"} THEN i+4
           ELSE 0
  IN  IF /\ At(t, i) \in {"i", "I"}
         /\ At(t, i+1) = SP
         /\ v # 0
         /\ At(t, v+1) = SP
         /\ v + 2 <= Len(t)
         /\ t[v+2] # NL
      THEN v + 2
      ELSE 0

\* text.match(...): the leftmost match; group 1 runs to the end of the line.
WishRegex(t) ==
  LET starts == {i \in 1..Len(t) : WishRegexAt(t, i) # 0}
  IN  IF starts = {} THEN [from |-> 0, to |-> 0, item |-> <<>>]
      ELSE LET i == Min(starts)
               g == WishRegexAt(t, i)
               e == Min({k \in g..(Len(t)+1) : At(t, k) \in {NL, ""}}) - 1
           IN  [from |-> i, to |-> e, item |-> SubSeq(t, g, e)]

(***************************************************************************)
(* JSON.parse.  JSON whitespace may stand between any two tokens, and a    *)
(* string literal is one token, so the text is parsed with its whitespace  *)
(* tokens dropped.  ParseValue(t, i) is the position just past the JSON    *)
(* value that starts at t[i], or 0 for a SyntaxError.                      *)
(***************************************************************************)
StripWs(s) == SelectSeq(s, LAMBDA tok : tok \notin Whitespace)

RECURSIVE ParseValue(_, _), ParseMembers(_, _), ParseElements(_, _)
ParseValue(t, i) ==
  IF i > Len(t) THEN 0
  ELSE IF IsStrLit(t[i]) \/ t[i] \in Numbers \/ t[i] \in Keywords THEN i + 1
  ELSE IF t[i] = LB
       THEN IF At(t, i+1) = RB THEN i + 2 ELSE ParseMembers(t, i + 1)
  ELSE IF t[i] = "["
       THEN IF At(t, i+1) = "]" THEN i + 2 ELSE ParseElements(t, i + 1)
  ELSE 0

\* i is where a member ("key" : value) must start; the result is the
\* position just past the "}" that closes the object.
ParseMembers(t, i) ==
  IF ~IsStrLit(At(t, i)) \/ At(t, i+1) # COLON THEN 0
  ELSE LET j == ParseValue(t, i + 2)
       IN  IF j = 0 THEN 0
           ELSE IF At(t, j) = RB THEN j + 1
           ELSE IF At(t, j) = COMMA THEN ParseMembers(t, j + 1)
           ELSE 0

ParseElements(t, i) ==
  LET j == ParseValue(t, i)
  IN  IF j = 0 THEN 0
      ELSE IF At(t, j) = "]" THEN j + 1
      ELSE IF At(t, j) = COMMA THEN ParseElements(t, j + 1)
      ELSE 0

\* Whether JSON.parse(s) returns (TRUE) or throws a SyntaxError (FALSE).
JSONValid(s) ==
  LET t == StripWs(s)
  IN  Len(t) > 0 /\ ParseValue(t, 1) = Len(t) + 1

(***************************************************************************)
(* JavaScript values.  A string is held as its text; every other value as  *)
(* the tokens of its JSON form without whitespace.                         *)
(***************************************************************************)
Undefined == [type |-> "undefined", v |-> <<>>]
JSString(s) == [type |-> "string", v |-> s]

\* The value of the JSON text c (no whitespace), <<>> standing for "no value".
FromJSON(c) ==
  IF c = <<>> THEN Undefined
  ELSE IF IsStrLit(c[1]) THEN JSString(Chars(StrVal(c[1])))
  ELSE IF c[1] \in Numbers THEN [type |-> "number", v |-> c]
  ELSE IF c[1] \in {"true", "false"} THEN [type |-> "boolean", v |-> c]
  ELSE IF c[1] = "null" THEN [type |-> "null", v |-> c]
  ELSE IF c[1] = "[" THEN [type |-> "array", v |-> c]
  ELSE [type |-> "object", v |-> c]

\* The JSON text of member key among the members that start at t[i]; a
\* repeated key keeps its last value, as JSON.parse does.
RECURSIVE MemberFrom(_, _, _, _)
MemberFrom(t, i, key, found) ==
  LET j == ParseValue(t, i + 2)
      now == IF StrVal(t[i]) = key THEN SubSeq(t, i + 2, j - 1) ELSE found
  IN  IF At(t, j) = COMMA THEN MemberFrom(t, j + 1, key, now) ELSE now

\* obj.key (and obj?.key): undefined unless obj is an object that has it.
Prop(obj, key) ==
  IF obj.type # "object" \/ Len(obj.v) = 2 THEN Undefined
  ELSE FromJSON(MemberFrom(obj.v, 2, key, <<>>))

\* JSON.parse(s) for a text on which JSONValid holds.
JSONParse(s) == FromJSON(StripWs(s))

\* ToBoolean.
Truthy(x) ==
  CASE x.type \in {"undefined", "null"} -> FALSE
    [] x.type = "string" -> x.v # <<>>
    [] x.type = "number" -> x.v # <<"0">>
    [] x.type = "boolean" -> x.v = <<"true">>
    [] OTHER -> TRUE

(***************************************************************************)
(* The in-memory stores.  gifts and children are plain objects ({}), so a  *)
(* child identity that names a property every object inherits from         *)
(* Object.prototype ("constructor") reads that inherited value instead of  *)
(* an entry of the store, and the child identity "__proto__" reads         *)
(* Object.prototype itself: children["__proto__"].name = x gives EVERY     *)
(* object the inherited property name = x.  The model keeps that property  *)
(* as the entry "__proto__" of children; a key that Object.prototype thus  *)
(* comes to define ("name") reads the inherited string as long as the      *)
(* store has no entry of its own for it.                                   *)
(***************************************************************************)
Builds == {"starter", "santa", "pepper", "pepperNames"}
OwnKeys == {"demo-child", "alice"}
InheritedKeys == {"constructor"}
ProtoKey == "__proto__"
PollutableKeys == {"name"}
ChildKeys == OwnKeys \cup InheritedKeys \cup {ProtoKey} \cup PollutableKeys
\* The childId of a request body: absent, or a string.
Absent == "(absent)"
ChildIdInputs == {Absent, "alice", "constructor", ProtoKey, "name"}
\* const { childId = "demo-child" } = req.body || {}
ChildIdOf(c) == IF c = Absent THEN "demo-child" ELSE c

EmptyStore == [k \in {} |-> <<>>]

\* gifts[childId] || [] for a childId that is an own key or no key at all.
GiftsOf(g, childId) == IF childId \in DOMAIN g THEN g[childId] ELSE <<>>

\* Object.prototype has been given a name, which key k of a store without
\* an entry for k then reads.
Polluted(ch, k) == k \in PollutableKeys /\ ProtoKey \in DOMAIN ch

\* gifts[childId], as a kind and the value of that kind.
GiftsValue(g, ch, childId) ==
  IF childId \in DOMAIN g THEN [kind |-> "array", v |-> g[childId]]
  ELSE IF childId \in InheritedKeys THEN [kind |-> "function", v |-> <<>>]
  ELSE IF childId = ProtoKey
       THEN [kind |-> "object",
             v |-> IF ProtoKey \in DOMAIN ch THEN ch[ProtoKey].name ELSE <<>>]
  ELSE IF Polluted(ch, childId) THEN [kind |-> "string", v |-> ch[ProtoKey].name]
  ELSE [kind |-> "undefined", v |-> <<>>]

\* A push that adds at the front (Array.prototype.unshift).
Unshift(list, rec) == <<rec>> \o list
\* Array.prototype.push
Push(list, rec) == Append(list, rec)

\* gifts[childId] ??= []; gifts[childId].push(rec).  When gifts[childId]
\* reads a function, Object.prototype or an inherited string, ??= assigns
\* nothing and the call of its undefined push throws a TypeError.
PushGift(g, ch, childId, rec) ==
  IF GiftsValue(g, ch, childId).kind \notin {"array", "undefined"}
  THEN [threw |-> TRUE, gifts |-> g]
  ELSE [threw |-> FALSE,
        gifts |-> IF childId \in DOMAIN g
                  THEN [g EXCEPT ![childId] = Push(@, rec)]
                  ELSE g @@ (childId :> Push(<<>>, rec))]

\* children[childId] ??= {}; children[childId].name = childName.  For an
\* inherited key the target is the Object function, whose name is read-only,
\* and for a key that reads an inherited string it is a primitive: the
\* assignment throws a TypeError (module code is strict).  For "__proto__"
\* the target is Object.prototype, which takes the property.
SetName(ch, childId, childName) ==
  IF \/ childId \in InheritedKeys
     \/ childId \notin DOMAIN ch /\ Polluted(ch, childId)
  THEN [threw |-> TRUE, children |-> ch]
  ELSE [threw |-> FALSE,
        children |-> IF childId \in DOMAIN ch
                     THEN [ch EXCEPT ![childId] = [name |-> childName]]
                     ELSE ch @@ (childId :> [name |-> childName])]

\* children[childId]?.name, <<>> for undefined.
NameOf(ch, childId) ==
  IF childId \in InheritedKeys THEN <<"Object">>
  ELSE IF childId \in DOMAIN ch THEN ch[childId].name
  ELSE IF Polluted(ch, childId) THEN ch[ProtoKey].name
  ELSE <<>>

(***************************************************************************)
(* Fixed texts of the source; each is one token.                           *)
(***************************************************************************)
SantaGreeting == <<"Ho ho ho! Merry Christmas!">>
PepperTrouble ==
  <<"Pepper the elf is having a little trouble right now. Please try again soon.">>
StarterTrouble ==
  <<"Ho ho ho! Santa is having a little trouble right now. Please try again soon.">>

SantaFallback(text) ==
  <<"Ho ho ho! I heard: ", QUOTE>> \o text
    \o <<QUOTE, ". I'll tell the elves! Keep being kind and helpful at home.">>
PepperFallback(text) ==
  <<"This is Pepper the elf! I heard: ", QUOTE>> \o text
    \o <<QUOTE, ". I'll be sure to tell Santa. Keep being kind and helpful at home!">>
PepperNamesFallback(text) ==
  <<"Hee hee! I heard: ", QUOTE>> \o text
    \o <<QUOTE, ". This is Pepper the elf, and I'll be sure to tell Santa. Keep being kind and helpful at home!">>
PepperOverride(text) ==
  <<"I heard you say: ", QUOTE>> \o text
    \o <<QUOTE, ". I'm Pepper the elf here in Santa's workshop, and that sounds very important!">>

\* genericRegex.test(reply): the phrases are single tokens of the model.
GenericPhrases ==
  {"what can I help you with today", "how can I help you today",
   "what can I help you with"}
GenericRegexTest(reply) == \E i \in 1..Len(reply) : reply[i] \in GenericPhrases

\* resp.choices[0]?.message?.content || greeting
OrDefault(content, greeting) == IF content = <<>> THEN greeting ELSE content

(***************************************************************************)
(* The gift block of the success path:                                     *)
(*   const parsed = JSON.parse(match[0]); const g = parsed.gift;           *)
(*   if (g?.item) { gifts[childId] ??= []; gifts[childId].push({...}) }    *)
(* threw: an exception left the block (a SyntaxError of JSON.parse or the  *)
(* TypeError of push); found: the block reached the push.                  *)
(***************************************************************************)
GiftBlock(g, ch, childId, fragment, now) ==
  IF ~JSONValid(fragment) THEN [threw |-> TRUE, found |-> FALSE, gifts |-> g]
  ELSE LET parsed == JSONParse(fragment)
           gift == Prop(parsed, "gift")
       IN  IF Truthy(Prop(gift, "item"))
           THEN LET p == PushGift(g, ch, childId,
                           [item |-> Prop(gift, "item"),
                            details |-> Prop(gift, "details"),
                            at |-> now])
                IN  [threw |-> p.threw, found |-> TRUE, gifts |-> p.gifts]
           ELSE [threw |-> FALSE, found |-> FALSE, gifts |-> g]

\* What a handler run leaves: how it ended ("sent" a response, or "threw"
\* out of the handler with none sent), the response, and the stores.
Sent(status, replyText, g, ch, found) ==
  [exit |-> "sent", status |-> status, replyText |-> replyText,
   gifts |-> g, children |-> ch, found |-> found]
Threw(g, ch) ==
  [exit |-> "threw", status |-> 0, replyText |-> <<>>,
   gifts |-> g, children |-> ch, found |-> FALSE]

\* The catch block of the builds that have a fallback path:
\*   const wish = text.match(...); if (wish) { gifts[childId] ??= [];
\*   gifts[childId].push({ item: wish[1], at }) }; res.json(fallback)
\* Nothing catches the TypeError of push here.
Fallback(g, ch, childId, text, fallback, now) ==
  LET wish == WishRegex(text)
  IN  IF Matched(wish)
      THEN LET p == PushGift(g, ch, childId,
                      [item |-> JSString(wish.item), details |-> Undefined,
                       at |-> now])
           IN  IF p.threw THEN Threw(g, ch)
               ELSE Sent(200, fallback, p.gifts, ch, TRUE)
      ELSE Sent(200, fallback, g, ch, FALSE)

(***************************************************************************)
(* The part of each /chat handler that runs after the model call settles.  *)
(* It runs to its end without interleaving (one JavaScript thread).        *)
(***************************************************************************)
NoGift(g) == [threw |-> FALSE, found |-> FALSE, gifts |-> g]

\* src/src/index.ts: the reply is cleaned outside the try block, whether or
\* not the gift block threw.
StarterResolve(g, ch, childId, text, content, now) ==
  LET reply == OrDefault(content, SantaGreeting)
      match == GiftRegexGreedy(reply)
      b == IF Matched(match)
           THEN GiftBlock(g, ch, childId, MatchText(reply, match), now)
           ELSE NoGift(g)
      cleaned == Trim(RemoveSpan(reply, GiftRegexGreedy(reply)))
  IN  Sent(200, cleaned, b.gifts, ch, b.found)

StarterReject(g, ch, childId, text, now) ==
  Sent(500, StarterTrouble, g, ch, FALSE)

\* A Santa handler that cleans the reply outside the try block, as the
\* starter does.
SantaCleansAlways(g, ch, childId, text, content, now) ==
  LET reply == OrDefault(content, SantaGreeting)
      m == GiftRegexGreedy(reply)
      b == IF Matched(m)
           THEN GiftBlock(g, ch, childId, MatchText(reply, m), now)
           ELSE NoGift(g)
  IN  Sent(200, Trim(RemoveSpan(reply, GiftRegexGreedy(reply))),
           b.gifts, ch, b.found)

\* src/index.ts (Santa): the reply is cleaned inside the try block, after
\* the gift block.
SantaResolve(g, ch, childId, text, content, now) ==
  LET reply == OrDefault(content, SantaGreeting)
      m == GiftRegexGreedy(reply)
      b == IF Matched(m)
           THEN GiftBlock(g, ch, childId, MatchText(reply, m), now)
           ELSE NoGift(g)
      cleaned == IF Matched(m) /\ ~b.threw
                 THEN Trim(RemoveSpan(reply, GiftRegexGreedy(reply)))
                 ELSE reply
  IN  Sent(200, cleaned, b.gifts, ch, b.found)

SantaReject(g, ch, childId, text, now) ==
  Fallback(g, ch, childId, text, SantaFallback(text), now)

\* src/index.ts (Pepper): a generic answer is overridden first; the gift
\* pattern must start with {"gift".
PepperResolve(g, ch, childId, text, content, now) ==
  LET raw == OrDefault(content, PepperTrouble)
      reply == IF GenericRegexTest(raw) THEN PepperOverride(text) ELSE raw
      giftMatch == GiftRegexAnchored(reply)
      b == IF Matched(giftMatch)
           THEN GiftBlock(g, ch, childId, MatchText(reply, giftMatch), now)
           ELSE NoGift(g)
      cleaned == IF Matched(giftMatch) /\ ~b.threw
                 THEN Trim(RemoveSpan(reply,
                             IndexOf(reply, MatchText(reply, giftMatch))))
                 ELSE reply
  IN  Sent(200, cleaned, b.gifts, ch, b.found)

PepperReject(g, ch, childId, text, now) ==
  Fallback(g, ch, childId, text, PepperFallback(text), now)

\* src/unnamed/part_000: gift extraction, then name extraction on what is
\* left.  The TypeError of the name assignment is caught by the outer catch,
\* which runs the fallback.
PepperNamesReject(g, ch, childId, text, now) ==
  Fallback(g, ch, childId, text, PepperNamesFallback(text), now)

PepperNamesResolve(g, ch, childId, text, content, now) ==
  LET raw == OrDefault(content, PepperTrouble)
      giftMatch == GiftRegexGreedy(raw)
      b == IF Matched(giftMatch)
           THEN GiftBlock(g, ch, childId, MatchText(raw, giftMatch), now)
           ELSE NoGift(g)
      reply == IF Matched(giftMatch) /\ ~b.threw
               THEN Trim(RemoveSpan(raw, IndexOf(raw, MatchText(raw, giftMatch))))
               ELSE raw
      nameMatch == NameRegex(reply)
      n == SetName(ch, childId, nameMatch.name)
  IN  IF ~Matched(nameMatch) THEN Sent(200, reply, b.gifts, ch, b.found)
      ELSE IF n.threw
           THEN LET f == PepperNamesReject(b.gifts, ch, childId, text, now)
                IN  [f EXCEPT !.found = @ \/ b.found]
           ELSE Sent(200, Trim(RemoveSpan(reply, nameMatch)),
                     b.gifts, n.children, b.found)

OnResolve(b, g, ch, childId, text, content, now) ==
  CASE b = "starter" -> StarterResolve(g, ch, childId, text, content, now)
    [] b = "santa" -> SantaResolve(g, ch, childId, text, content, now)
    [] b = "pepper" -> PepperResolve(g, ch, childId, text, content, now)
    [] b = "pepperNames" -> PepperNamesResolve(g, ch, childId, text, content, now)

OnReject(b, g, ch, childId, text, now) ==
  CASE b = "starter" -> StarterReject(g, ch, childId, text, now)
    [] b = "santa" -> SantaReject(g, ch, childId, text, now)
    [] b = "pepper" -> PepperReject(g, ch, childId, text, now)
    [] b = "pepperNames" -> PepperNamesReject(g, ch, childId, text, now)

(***************************************************************************)
(* Inputs: the replies of the model and the utterances of the child.       *)
(***************************************************************************)
GiftFragment(item) ==
  <<LB, Q("gift"), COLON, LB, Q("item"), COLON, item, RB, RB>>
GiftWithDetails ==
  <<LB, Q("gift"), COLON, LB, Q("item"), COLON, Q("bike"), COMMA,
    Q("details"), COLON, LB, Q("color"), COLON, Q("red"), RB, RB, RB>>
Malformed == <<LB, Q("gift"), COLON, SP, "not", SP, "json", RB>>
NameFragment(n) ==
  <<LB, Q("child"), COLON, LB, Q("name"), COLON, n, RB, RB>>

Contents ==
  { <<>>,
    <<"Ho ho!">>,
    <<SP>>,
    <<"Ho ho!", NL>> \o GiftFragment(Q("bike")),
    GiftFragment(Q("bike")),
    <<LB, "wow", RB, SP>> \o GiftFragment(Q("bike")),
    <<"Ho ho!", SP>> \o GiftWithDetails,
    <<"Ho ho!", SP>> \o Malformed,
    <<"Ho ho!", SP>> \o GiftFragment("5"),
    <<"Ho ho!", SP>> \o GiftFragment(Q("")),
    <<"Hi!", NL>> \o NameFragment(Q("Emma")),
    <<"Hi!", NL>> \o NameFragment(Q("Zoe")),
    <<"Hi!", NL>> \o NameFragment(Q(" ")),
    <<"Hi!", NL>> \o GiftFragment(Q("bike")) \o <<NL>> \o NameFragment(Q("Emma")),
    <<"what can I help you with today">> }

PuzzleWish == <<"I", SP, "want", SP, "a", SP, "puzzle">>
Texts ==
  { <<>>,
    PuzzleWish,
    <<"hi", SP>> \o GiftFragment(Q("bike")) }

(***************************************************************************)
(* State.                                                                  *)
(***************************************************************************)
VARIABLES
  build,      \* which version of the server runs
  gifts,      \* const gifts: Record<string, Array<{item, details, at}>>
  children,   \* const children: Record<string, {name?: string}>
  req,        \* the /chat handlers: idle, or awaiting the model call
  started,    \* /chat requests accepted so far; also the clock of "at"
  last,       \* the handler run that ended last, and what it sent
  yielded,    \* per child: answered turns whose extraction found a gift
  overlap     \* children that had two model calls in flight at once

vars == <<build, gifts, children, req, started, last, yielded, overlap>>

Slots == 1..MaxInFlight
Idle ==
  [pc |-> "idle", childId |-> "", text |-> <<>>, promptName |-> <<>>,
   calls |-> 0]
\* No /gifts body: the run was not a /gifts request.
NoBody == [kind |-> "none", v |-> <<>>]
NoRun ==
  [op |-> "none", exit |-> "none", childId |-> "", text |-> <<>>,
   ok |-> FALSE, content |-> <<>>, status |-> 0, replyText |-> <<>>,
   found |-> FALSE, calls |-> 0, body |-> NoBody]

Init ==
  /\ build \in Builds
  /\ gifts = EmptyStore
  /\ children = EmptyStore
  /\ req = [s \in Slots |-> Idle]
  /\ started = 0
  /\ last = NoRun
  /\ yielded = [c \in ChildKeys |-> 0]
  /\ overlap = {}

\* app.post("/chat") up to the await of openai.chat.completions.create.
\* Only pepperNames reads the stored name into the prompt; the childName of
\* the pepper build's request body goes into the prompt and nowhere else.
ChatRequest(s, c, text) ==
  /\ req[s].pc = "idle"
  /\ started < MaxTurns
  /\ req' = [req EXCEPT ![s] =
               [pc |-> "awaiting", childId |-> ChildIdOf(c), text |-> text,
                promptName |-> IF build = "pepperNames"
                               THEN NameOf(children, ChildIdOf(c)) ELSE <<>>,
                calls |-> 1]]
  /\ started' = started + 1
  /\ overlap' = IF \E o \in Slots \ {s} :
                     req[o].pc = "awaiting" /\ req[o].childId = ChildIdOf(c)
                THEN overlap \cup {ChildIdOf(c)} ELSE overlap
  /\ UNCHANGED <<build, gifts, children, last, yielded>>

\* The handler run of slot s ends with result r.
Finish(s, ok, content, r) ==
  /\ gifts' = r.gifts
  /\ children' = r.children
  /\ req' = [req EXCEPT ![s] = Idle]
  /\ last' = [op |-> "chat", exit |-> r.exit, childId |-> req[s].childId,
              text |-> req[s].text, ok |-> ok, content |-> content,
              status |-> r.status, replyText |-> r.replyText,
              found |-> r.found, calls |-> req[s].calls, body |-> NoBody]
  /\ yielded' = IF r.exit = "sent" /\ r.found
                THEN [yielded EXCEPT ![req[s].childId] = @ + 1]
                ELSE yielded
  /\ UNCHANGED <<build, started, overlap>>

\* The model call resolves with a completion whose content is `content`.
ModelResolves(s, content) ==
  /\ req[s].pc = "awaiting"
  /\ Finish(s, TRUE, content,
            OnResolve(build, gifts, children, req[s].childId, req[s].text,
                      content, started))

\* A handler that calls the model once more after a first rejection.
ModelRejectsRetries(s) ==
  /\ req[s].pc = "awaiting"
  /\ IF req[s].calls < 2
     THEN /\ req' = [req EXCEPT ![s].calls = @ + 1]
          /\ UNCHANGED <<build, gifts, children, started, last, yielded, overlap>>
     ELSE Finish(s, FALSE, <<>>,
                 OnReject(build, gifts, children, req[s].childId, req[s].text,
                          started))

\* The model call rejects (network, quota, key).
ModelRejects(s) ==
  /\ req[s].pc = "awaiting"
  /\ Finish(s, FALSE, <<>>,
            OnReject(build, gifts, children, req[s].childId, req[s].text,
                     started))

\* app.get("/gifts"): res.json(gifts[childId] || []).  Every value that
\* gifts[childId] can read is truthy except undefined; a function is sent
\* as no body at all.
GetGifts(c) ==
  /\ last' = [NoRun EXCEPT !.op = "gifts", !.exit = "sent",
                           !.childId = ChildIdOf(c), !.status = 200,
                           !.body =
                             LET v == GiftsValue(gifts, children, ChildIdOf(c))
                             IN  IF v.kind = "undefined"
                                 THEN [kind |-> "array", v |-> <<>>]
                                 ELSE v]
  /\ UNCHANGED <<build, gifts, children, req, started, yielded, overlap>>

Next ==
  \/ \E s \in Slots, c \in ChildIdInputs, text \in Texts : ChatRequest(s, c, text)
  \/ \E s \in Slots, content \in Contents : ModelResolves(s, content)
  \/ \E s \in Slots : ModelRejects(s)
  \/ \E c \in ChildIdInputs : GetGifts(c)

Spec == Init /\ [][Next]_vars

(***************************************************************************)
(* Vocabulary of the properties.                                           *)
(***************************************************************************)
\* The handler run of slot s ends in this step.
Completes(s) == req[s].pc = "awaiting" /\ req'[s].pc = "idle"
\* t occurs in s as a contiguous run.
Contains(s, t) ==
  \E i \in 1..(Len(s) - Len(t) + 1) : SubSeq(s, i, i + Len(t) - 1) = t
EndsWith(s, t) ==
  Len(s) >= Len(t) /\ SubSeq(s, Len(s) - Len(t) + 1, Len(s)) = t
\* The last record of child c's own list.
Newest(g, c) == g[c][Len(g[c])]
Bike == JSString(<<"bike">>)
ColorRed == [type |-> "object", v |-> <<LB, Q("color"), COLON, Q("red"), RB>>]

(***************************************************************************)
(* C1.  Every /chat turn, whatever the childId, the utterance and the      *)
(* outcome of the model call, ends by sending one response that carries a  *)
(* replyText; no exception leaves the handler.                             *)
(***************************************************************************)
C1_EveryTurnResponds ==
  last.op = "chat" => last.exit = "sent"

(***************************************************************************)
(* C2.  When the model call fails, the turn is answered without an error   *)
(* status, with a non-empty reply that contains the utterance verbatim;    *)
(* an utterance the wish heuristic matches appends exactly one gift record *)
(* to that child's list, and for "I want a puzzle" its item is "puzzle".   *)
(***************************************************************************)
C2_FailureFallsBack ==
  [][\A s \in Slots :
       (Completes(s) /\ ~last'.ok) =>
         /\ last'.exit = "sent"
         /\ last'.status = 200
         /\ last'.replyText # <<>>
         /\ Contains(last'.replyText, last'.text)
         /\ Matched(WishRegex(last'.text)) =>
              Len(GiftsOf(gifts', last'.childId))
                = Len(GiftsOf(gifts, last'.childId)) + 1
         /\ last'.text = PuzzleWish =>
              /\ last'.childId \in DOMAIN gifts'
              /\ Newest(gifts', last'.childId).item = JSString(<<"puzzle">>)
    ]_vars

(***************************************************************************)
(* C3.  A model reply that ends in a well-formed gift fragment, whatever   *)
(* text precedes it, appends one record with the fragment's item and       *)
(* details to that child's list, and the replyText is the reply with that  *)
(* fragment removed and the surrounding whitespace trimmed.                *)
(***************************************************************************)
WellFormedGifts == {GiftFragment(Q("bike")), GiftWithDetails}
C3_GiftFragmentRecorded ==
  [][\A s \in Slots, f \in WellFormedGifts :
       (Completes(s) /\ last'.ok /\ EndsWith(last'.content, f)) =>
         /\ last'.exit = "sent"
         /\ last'.replyText
              = Trim(SubSeq(last'.content, 1, Len(last'.content) - Len(f)))
         /\ last'.childId \in DOMAIN gifts'
         /\ Len(gifts'[last'.childId])
              = Len(GiftsOf(gifts, last'.childId)) + 1
         /\ Newest(gifts', last'.childId).item = Bike
         /\ Newest(gifts', last'.childId).details
              = IF f = GiftWithDetails THEN ColorRed ELSE Undefined
    ]_vars

(***************************************************************************)
(* C4.  As claimed: a successful model reply that contains no JSON-like    *)
(* fragment is returned as it is, character for character, and the turn    *)
(* changes neither the gift store nor the child profiles.                  *)
(***************************************************************************)
NoJsonLike(s) == \A i \in 1..Len(s) : s[i] \notin {LB, RB}
PlainReply(s) == Completes(s) /\ last'.ok /\ NoJsonLike(last'.content)

Greeting(b) == IF b \in {"starter", "santa"} THEN SantaGreeting ELSE PepperTrouble
Overridden(b, content) == b = "pepper" /\ GenericRegexTest(content)

C5_MalformedLeftAlone ==
  [][\A s \in Slots :
       (Completes(s) /\ last'.ok /\ Contains(last'.content, Malformed)) =>
         /\ last'.exit = "sent"
         /\ last'.status = 200
         /\ last'.replyText = last'.content
         /\ gifts' = gifts
    ]_vars

(***************************************************************************)
(* C6.  Each child's gift list is append-only: every step of /chat and of  *)
(* /gifts leaves each list as a prefix of what it becomes, so no record is *)
(* changed, reordered or removed and the records stand in the order in     *)
(* which they were recorded, earliest first.                               *)
(***************************************************************************)
IsPrefix(a, b) == Len(a) <= Len(b) /\ SubSeq(b, 1, Len(a)) = a

C6_AppendOnly ==
  [][\A c \in DOMAIN gifts :
       c \in DOMAIN gifts' /\ IsPrefix(gifts[c], gifts'[c])]_vars

\* Two gifts recorded one turn after the other for one child.
C6_Witness ==
  \E c \in DOMAIN gifts :
    /\ Len(gifts[c]) = 2
    /\ gifts[c][1].at < gifts[c][2].at
    /\ gifts[c][1].item # gifts[c][2].item

(***************************************************************************)
(* C7.  After a turn whose reply carries a name fragment, the name stored  *)
(* for that child is the name of that fragment (the last writer wins).     *)
(* Only the pepperNames build learns names.                                *)
(***************************************************************************)
C7_LastNameWins ==
  (/\ build = "pepperNames"
   /\ last.op = "chat"
   /\ last.ok
   /\ Matched(NameRegex(last.content))) =>
     /\ last.childId \in DOMAIN children
     /\ children[last.childId].name = NameRegex(last.content).name

(***************************************************************************)
(* C8.  Two turns of one child whose model calls were in flight at the     *)
(* same time lose no update: once none of the child's turns is in flight,  *)
(* the child's list holds one record for every answered turn that found a  *)
(* gift.                                                                   *)
(***************************************************************************)
C8_NoLostUpdate ==
  \A c \in overlap :
    (\A s \in Slots : req[s].pc = "awaiting" => req[s].childId # c) =>
      Len(GiftsOf(gifts, c)) = yielded[c]

(***************************************************************************)
(* C9.  No answered /chat turn returns an empty or whitespace-only         *)
(* replyText.                                                              *)
(***************************************************************************)
C9_NeverBlankReply ==
  (last.op = "chat" /\ last.exit = "sent") => Trim(last.replyText) # <<>>

(***************************************************************************)
(* C10.  Every gift record in the store has an item that is a non-empty    *)
(* string.                                                                 *)
(***************************************************************************)
C10_ItemsAreNonEmptyStrings ==
  \A c \in DOMAIN gifts : \A i \in 1..Len(gifts[c]) :
    gifts[c][i].item.type = "string" /\ gifts[c][i].item.v # <<>>

(***************************************************************************)
(* C11.  In the build that learns names, a reply that ends with a          *)
(* well-formed gift fragment followed by a well-formed name fragment       *)
(* appends the gift to the child's list, stores the name in the child's    *)
(* profile, and is answered with a replyText that holds neither fragment.  *)
(***************************************************************************)
GiftThenName == GiftFragment(Q("bike")) \o <<NL>> \o NameFragment(Q("Emma"))

C11_GiftAndNameIndependent ==
  [][\A s \in Slots :
       (/\ Completes(s)
        /\ build = "pepperNames"
        /\ last'.ok
        /\ EndsWith(last'.content, GiftThenName)) =>
         /\ last'.exit = "sent"
         /\ last'.childId \in DOMAIN gifts'
         /\ Len(gifts'[last'.childId])
              = Len(GiftsOf(gifts, last'.childId)) + 1
         /\ Newest(gifts', last'.childId).item = Bike
         /\ last'.childId \in DOMAIN children'
         /\ children'[last'.childId].name = <<"Emma">>
         /\ ~Contains(last'.replyText, GiftFragment(Q("bike")))
         /\ ~Contains(last'.replyText, NameFragment(Q("Emma")))
    ]_vars

(***************************************************************************)
(* C12.  Each /chat turn issues exactly one model completion request and   *)
(* never retries it: a turn in flight has made one call; the step that     *)
(* takes the outcome of that call, success or failure, is the step in      *)
(* which the handler ends, with that one call made; and a failed call that *)
(* is answered is answered with the build's failure reply.                 *)
(***************************************************************************)
FailureReply(b, text) ==
  CASE b = "starter" -> StarterTrouble
    [] b = "santa" -> SantaFallback(text)
    [] b = "pepper" -> PepperFallback(text)
    [] b = "pepperNames" -> PepperNamesFallback(text)

C12_SingleAttempt ==
  /\ [](\A s \in Slots :
          req[s].calls = IF req[s].pc = "awaiting" THEN 1 ELSE 0)
  /\ [](last.op = "chat" => last.calls = 1)
  /\ [][\A s \in Slots :
          (req[s].pc = "awaiting" /\ req'[s] # req[s]) =>
            /\ Completes(s)
            /\ last'.op = "chat"
            /\ last'.calls = 1
            /\ (~last'.ok /\ last'.exit = "sent") =>
                 last'.replyText = FailureReply(build, last'.text)
       ]_vars

\* A failed call was answered with the fallback reply after one call.
C12_Witness ==
  /\ last.op = "chat"
  /\ ~last.ok
  /\ last.exit = "sent"
  /\ last.calls = 1
  /\ last.text = PuzzleWish
  /\ last.replyText = PepperNamesFallback(PuzzleWish)

(***************************************************************************)
(* C13.  A stored name is never empty and never whitespace-only: a name    *)
(* fragment whose name is blank leaves the profiles as they were.          *)
(***************************************************************************)
C13_NamesAreNonBlank ==
  \A c \in DOMAIN children : Trim(children[c].name) # <<>>

(***************************************************************************)
(* C14.  A /chat turn for child c changes only c's entries: for every      *)
(* other child identity d, the gift list and the profile name that the     *)
(* code reads for d are the same after the turn as before it, on the model *)
(* path and on the fallback path, whatever other turns are in flight; and  *)
(* a step that ends no turn (a request being accepted, GET /gifts) changes *)
(* neither store.                                                          *)
(***************************************************************************)
SameGifts(g1, ch1, g2, ch2, d) ==
  LET a == GiftsValue(g1, ch1, d)
      b == GiftsValue(g2, ch2, d)
  IN  a.kind = b.kind /\ a.v = b.v
SameEntries(d) ==
  /\ SameGifts(gifts, children, gifts', children', d)
  /\ NameOf(children', d) = NameOf(children, d)

C14_OnlyOwnEntries ==
  [][/\ \A s \in Slots :
          Completes(s) =>
            \A d \in ChildKeys \ {req[s].childId} : SameEntries(d)
     /\ (\A s \in Slots : ~Completes(s)) =>
          gifts' = gifts /\ children' = children
    ]_vars

=============================================================================
